---- MODULE Spec2Model ----
(***************************************************************************)
(* The PR review pipeline of ved7/pr-review-agent: the Celery job          *)
(* analyze_pr_task (app/tasks.py), the analysis analyze_pr_with_agent      *)
(* (app/agent/reviewer.py), the cache key and store (app/services/cache.py)*)
(* and the result schema (app/schemas.py).                                 *)
(*                                                                         *)
(* Python values that end up in dictionaries, in JSON text or in the cache *)
(* are tagged, [t |-> type, v |-> value], so that a type error of the code *)
(* (a list where a dict is expected, a string that is no enum member) is a *)
(* case of the model.                                                      *)
(***************************************************************************)
EXTENDS Integers, Sequences, FiniteSets, TLC

\* ------------------------------------------------------------------ bounds
\* Number of jobs submitted to the queue.
NumJobs == 2
\* Pull request numbers are 1..MaxPr (AnalyzePRRequest.pr_number, ge=1).
MaxPr == 2

\* -------------------------------------------------------- tagged values
JNull == [t |-> "null"]
JInt(n) == [t |-> "int", v |-> n]
JStr(s) == [t |-> "str", v |-> s]
JList(q) == [t |-> "list", v |-> q]
JDict(d) == [t |-> "dict", v |-> d]

\* Python truthiness (bool(x)) of a value.
Truthy(j) ==
  CASE j.t = "null" -> FALSE
    [] j.t = "int" -> j.v # 0
    [] j.t = "str" -> j.v # ""
    [] j.t = "list" -> Len(j.v) # 0
    [] j.t = "dict" -> DOMAIN j.v # {}

\* Python str(x) of a scalar value.
PyStr(j) ==
  CASE j.t = "null" -> "None"
    [] j.t = "int" -> ToString(j.v)
    [] j.t = "str" -> j.v
    [] j.t = "list" -> "[...]"
    [] j.t = "dict" -> "{...}"

\* dict.get(key, default) on a tagged dict.
DictGet(d, key, default) == IF key \in DOMAIN d.v THEN d.v[key] ELSE default

\* ------------------------------------------------------------- schemas
Severities == {"info", "warning", "error"}
Categories == {"style", "bug", "performance", "best_practice"}

\* pydantic validation of one field value against `str`.
IsStrField(j) == j.t = "str"
\* ... against `int | None` and `str | None`.
IsOptInt(j) == j.t \in {"null", "int"}
IsOptStr(j) == j.t \in {"null", "str"}
\* ... against a Literal[...] of strings.
IsLiteral(j, allowed) == j.t = "str" /\ j.v \in allowed

\* AnalysisIssue(file_path=fp, line=ln, severity=sv, category=ct, message=ms,
\* suggestion=sg): whether pydantic accepts the six field values.
IssueFieldsValid(fp, ln, sv, ct, ms, sg) ==
  /\ IsStrField(fp)
  /\ IsOptInt(ln)
  /\ IsLiteral(sv, Severities)
  /\ IsLiteral(ct, Categories)
  /\ IsStrField(ms)
  /\ IsOptStr(sg)

\* The model instance pydantic builds from valid field values.
MkIssue(fp, ln, sv, ct, ms, sg) ==
  [file_path |-> fp.v, line |-> ln, severity |-> sv.v, category |-> ct.v,
   message |-> ms.v, suggestion |-> sg]

\* AnalysisIssue.model_dump().
IssueDump(i) ==
  JDict([file_path |-> JStr(i.file_path), line |-> i.line,
         severity |-> JStr(i.severity), category |-> JStr(i.category),
         message |-> JStr(i.message), suggestion |-> i.suggestion])

\* AnalysisResult.model_dump().
ResultDump(r) ==
  JDict([repo_url |-> JStr(r.repo_url), pr_number |-> JInt(r.pr_number),
         head_sha |-> r.head_sha,
         issues |-> JList([k \in 1..Len(r.issues) |-> IssueDump(r.issues[k])]),
         summary |-> JStr(r.summary), model_info |-> JDict(r.model_info)])

\* ------------------------------------------------- json.dumps / json.loads
\* JSON text is a sequence of tokens [k, s]: punctuation "p", string "s",
\* number "n" (its decimal text), literal "l".
Tok(k, s) == [k |-> k, s |-> s]

\* The order in which the keys of the dictionaries of this program are
\* inserted, which is the order json.dumps writes them in.
KeyOrder ==
  <<"repo_url", "pr_number", "head_sha", "issues", "summary", "model_info",
    "provider", "error", "file_path", "line", "severity", "category",
    "message", "suggestion">>

KeysOf(d) == SelectSeq(KeyOrder, LAMBDA k : k \in DOMAIN d)

\* Largest integer json.loads is asked to read back here.
MaxInt == 9

RECURSIVE JsonDumps(_)
RECURSIVE DumpItems(_, _)
RECURSIVE DumpPairs(_, _, _)
\* json.dumps(j), with list items / dict pairs from position i on.
DumpItems(q, i) ==
  IF i > Len(q) THEN <<>>
  ELSE (IF i > 1 THEN <<Tok("p", ",")>> ELSE <<>>) \o JsonDumps(q[i])
       \o DumpItems(q, i + 1)
DumpPairs(d, ks, i) ==
  IF i > Len(ks) THEN <<>>
  ELSE (IF i > 1 THEN <<Tok("p", ",")>> ELSE <<>>)
       \o <<Tok("s", ks[i]), Tok("p", ":")>> \o JsonDumps(d[ks[i]])
       \o DumpPairs(d, ks, i + 1)
\* json.dumps that writes None as the string "None".
JsonDumpsStr(j) ==
  CASE j.t = "null" -> <<Tok("s", "None")>>
    [] j.t = "int" -> <<Tok("n", ToString(j.v))>>
    [] j.t = "str" -> <<Tok("s", j.v)>>
    [] j.t = "list" -> <<Tok("p", "[")>> \o DumpItems(j.v, 1) \o <<Tok("p", "]")>>
    [] j.t = "dict" ->
         <<Tok("p", "{")>> \o DumpPairs(j.v, KeysOf(j.v), 1) \o <<Tok("p", "}")>>
JsonDumps(j) ==
  CASE j.t = "null" -> <<Tok("l", "null")>>
    [] j.t = "int" -> <<Tok("n", ToString(j.v))>>
    [] j.t = "str" -> <<Tok("s", j.v)>>
    [] j.t = "list" -> <<Tok("p", "[")>> \o DumpItems(j.v, 1) \o <<Tok("p", "]")>>
    [] j.t = "dict" ->
         <<Tok("p", "{")>> \o DumpPairs(j.v, KeysOf(j.v), 1) \o <<Tok("p", "}")>>

\* A dict from a sequence of <<key, value>> pairs (a later pair wins).
PairsToDict(ps) ==
  [k \in {ps[i][1] : i \in 1..Len(ps)} |->
     ps[CHOOSE i \in 1..Len(ps) :
          /\ ps[i][1] = k
          /\ \A m \in (i + 1)..Len(ps) : ps[m][1] # k][2]]

RECURSIVE LoadValue(_, _)
RECURSIVE LoadItems(_, _, _)
RECURSIVE LoadPairs(_, _, _)
\* The value that starts at token i, and the position after it:
\* [val |-> value, nxt |-> position].
LoadItems(ts, i, acc) ==
  IF ts[i] = Tok("p", "]") THEN [val |-> JList(acc), nxt |-> i + 1]
  ELSE LET s == IF ts[i] = Tok("p", ",") THEN i + 1 ELSE i
           r == LoadValue(ts, s)
       IN  LoadItems(ts, r.nxt, Append(acc, r.val))
LoadPairs(ts, i, acc) ==
  IF ts[i] = Tok("p", "}") THEN [val |-> JDict(PairsToDict(acc)), nxt |-> i + 1]
  ELSE LET s == IF ts[i] = Tok("p", ",") THEN i + 1 ELSE i
           r == LoadValue(ts, s + 2)
       IN  LoadPairs(ts, r.nxt, Append(acc, <<ts[s].s, r.val>>))
LoadValue(ts, i) ==
  CASE ts[i].k = "l" -> [val |-> JNull, nxt |-> i + 1]
    [] ts[i].k = "n" ->
         [val |-> JInt(CHOOSE n \in 0..MaxInt : ToString(n) = ts[i].s),
          nxt |-> i + 1]
    [] ts[i].k = "s" -> [val |-> JStr(ts[i].s), nxt |-> i + 1]
    [] ts[i] = Tok("p", "[") -> LoadItems(ts, i + 1, <<>>)
    [] ts[i] = Tok("p", "{") -> LoadPairs(ts, i + 1, <<>>)

\* json.loads(text) of a text json.dumps wrote.
JsonLoads(ts) == LoadValue(ts, 1).val

\* ------------------------------------------------------------ cache key
\* build_cache_key with a key that leaves the pull request number out.
build_cache_key_nopr(repo_url, pr_number, head_sha) ==
  "prreview:" \o repo_url \o ":" \o (IF Truthy(head_sha) THEN head_sha.v ELSE "no-sha")

\* build_cache_key with a suffix that is str(head_sha) for every head_sha.
build_cache_key_str(repo_url, pr_number, head_sha) ==
  "prreview:" \o repo_url \o ":" \o ToString(pr_number) \o ":" \o PyStr(head_sha)

\* build_cache_key(repo_url, pr_number, head_sha); head_sha is a tagged
\* Optional[str].
build_cache_key(repo_url, pr_number, head_sha) ==
  LET suffix == IF Truthy(head_sha) THEN head_sha.v ELSE "no-sha"
  IN  "prreview:" \o repo_url \o ":" \o ToString(pr_number) \o ":" \o suffix

\* ------------------------------------------------------- requests, GitHub
\* A repository URL: host, the non-empty segments of its path, and whether
\* the second segment ends in ".git".
UrlText(u) ==
  LET RECURSIVE Join(_)
      Join(i) == IF i > Len(u.segs) THEN ""
                 ELSE "/" \o u.segs[i]
                      \o (IF i = 2 /\ u.dotgit THEN ".git" ELSE "") \o Join(i + 1)
  IN  u.host \o Join(1)

GoodUrl == [host |-> "https://github.com", segs |-> <<"user", "repo">>, dotgit |-> FALSE]
ShortUrl == [host |-> "https://github.com", segs |-> <<"user">>, dotgit |-> FALSE]
RepoUrls == {GoodUrl, ShortUrl}

\* _parse_repo_url: [ok, owner, repo] or [ok |-> FALSE, error].
_parse_repo_url(u) ==
  IF Len(u.segs) < 2
  THEN [ok |-> FALSE,
        error |-> "Invalid repo_url; expected https://github.com/<owner>/<repo>"]
  ELSE [ok |-> TRUE, owner |-> u.segs[1], repo |-> u.segs[2]]

\* Lines of a unified-diff patch, by what _heuristic_review reads of them:
\* the first character, whether the rest contains "print(", "console.log(",
\* TODO or FIXME, and the length of the rest.
PatchLine(prefix, print, console, todo, len) ==
  [prefix |-> prefix, print |-> print, console |-> console, todo |-> todo, len |-> len]

\* The changed files GitHub reports at a head commit.
FilesAt(sha) ==
  IF sha = "abc"
  THEN << [filename |-> "a.py",
           patch |-> JList(<< PatchLine(" ", TRUE, FALSE, FALSE, 20),
                              PatchLine("+", TRUE, FALSE, FALSE, 20) >>)] >>
  ELSE << [filename |-> "b.js", patch |-> JNull],
          [filename |-> "c.js",
           patch |-> JList(<< PatchLine("+", FALSE, FALSE, TRUE, 121),
                              PatchLine("-", FALSE, TRUE, TRUE, 130),
                              PatchLine("+", FALSE, FALSE, FALSE, 120) >>)] >>
HeadShas == {"abc", "def"}

\* What the GitHub API answers to the first request of fetch_pr_data.
GithubAnswers == {"200", "404", "403", "timeout"}

\* fetch_pr_data(repo_url, pr_number, token) under a GitHub answer `ans` and
\* head commit `sha`: [ok, pr] or [ok |-> FALSE, error] (the text of the
\* ValueError raised).
fetch_pr_data(u, pr_number, ans, sha) ==
  LET parsed == _parse_repo_url(u)
      name == parsed.owner \o "/" \o parsed.repo
      \* the ValueError raised inside the try block, and whether its text
      \* contains "rate limit"
      inner ==
        CASE ans = "404" ->
               [text |-> "PR #" \o ToString(pr_number) \o " doesn't exist in " \o name,
                ratelimit |-> FALSE]
          [] ans = "403" ->
               [text |-> "Access denied or rate limited, try using a token",
                ratelimit |-> TRUE]
          [] OTHER -> [text |-> "", ratelimit |-> FALSE]
  IN  IF ~parsed.ok THEN [ok |-> FALSE, error |-> parsed.error]
      ELSE CASE ans = "timeout" ->
                  [ok |-> FALSE, error |-> "GitHub API timed out, try again later"]
             [] ans = "200" ->
                  [ok |-> TRUE,
                   pr |-> [owner |-> parsed.owner, repo |-> parsed.repo,
                           number |-> pr_number, head_sha |-> JStr(sha),
                           files |-> FilesAt(sha)]]
             [] OTHER ->
                  \* the trailing `except Exception` rewrites a rate-limit text
                  [ok |-> FALSE,
                   error |-> IF inner.ratelimit
                             THEN "GitHub rate limited, wait a bit or use a token"
                             ELSE inner.text]

\* ---------------------------------------------------- heuristic analyzer
HeuristicSummary ==
  "Automatic scan completed. Consider running a full AI review for deeper insights."

\* A reading of the patch that takes every line for an added one.
IsAddedAlways(line) == TRUE
\* Line 145, line.startswith("+"): the line is an added one.
IsAdded(line) == line.prefix = "+"

\* The issues _heuristic_review appends for line number n of a file.
LineIssues(filename, n, line) ==
  IF ~IsAdded(line) THEN <<>>
  ELSE (IF line.print \/ line.console
        THEN << MkIssue(JStr(filename), JInt(n), JStr("warning"), JStr("best_practice"),
                        JStr("Debug logging found in committed code"),
                        JStr("Remove debug prints or guard them behind log levels")) >>
        ELSE <<>>)
       \o (IF line.len > 120
           THEN << MkIssue(JStr(filename), JInt(n), JStr("info"), JStr("style"),
                           JStr("Very long line added (>120 chars)"),
                           JStr("Wrap long lines to improve readability")) >>
           ELSE <<>>)
       \o (IF line.todo
           THEN << MkIssue(JStr(filename), JInt(n), JStr("info"), JStr("best_practice"),
                           JStr("Leftover TODO/FIXME in changes"),
                           JStr("Track in issue tracker or resolve before merge")) >>
           ELSE <<>>)

RECURSIVE PatchIssues(_, _, _)
PatchIssues(filename, lines, n) ==
  IF n > Len(lines) THEN <<>>
  ELSE LineIssues(filename, n, lines[n]) \o PatchIssues(filename, lines, n + 1)

RECURSIVE FilesIssues(_, _)
FilesIssues(files, k) ==
  IF k > Len(files) THEN <<>>
  ELSE (IF ~Truthy(files[k].patch) THEN <<>>
        ELSE PatchIssues(files[k].filename, files[k].patch.v, 1))
       \o FilesIssues(files, k + 1)

\* _heuristic_review(pr): the dict {summary, issues} with dumped issues.
_heuristic_review(pr) ==
  LET issues == FilesIssues(pr.files, 1)
  IN  JDict([summary |-> JStr(HeuristicSummary),
             issues |-> JList([k \in 1..Len(issues) |-> IssueDump(issues[k])])])

\* ------------------------------------------------------- response parser
\* A provider text, by what _parse_json_threaded does with it:
\*   form "json":   a JSON document; json.loads gives `value`;
\*   form "fenced": a ```json fenced block around the JSON object `value`;
\*   form "prose":  no JSON; `lines` are its lines and `raw` its text.
\* (The interpreter's resource limits, RecursionError and MemoryError, are
\* not modelled.)
\* A prose line is [marks, last]: the markers its lower-cased text contains
\* and what follows its last colon, stripped (a tagged int when it is an
\* integer literal, a tagged str otherwise).
ProseLine(marks, last) == [marks |-> marks, last |-> last]

\* str.lower() on the texts that follow a colon in the lines used.
Lower(s) ==
  CASE s = "ERROR" -> "error"
    [] s = "Warning" -> "warning"
    [] s = "INFO" -> "info"
    [] OTHER -> s

\* A parser that drops the partial issue instead of appending it.
FlushDropped(cur, issues) == issues
\* Lines 103-104 and 117-118: `if current_issue: issues.append(current_issue)`.
Flush(cur, issues) == IF DOMAIN cur # {} THEN Append(issues, JDict(cur)) ELSE issues

\* The line-heuristic tier: the issues list built from lines k.., with the
\* partial issue `cur` (a dict) and the issues flushed so far.
RECURSIVE ScanLines(_, _, _, _)
ScanLines(lines, k, cur, issues) ==
  IF k > Len(lines)
  THEN Flush(cur, issues)
  ELSE LET ln == lines[k]
           Put(key, val) == [x \in DOMAIN cur \cup {key} |->
                               IF x = key THEN val ELSE cur[x]]
       IN  CASE ln.marks \cap {"file:", "filename:"} # {} ->
                  ScanLines(lines, k + 1, [file_path |-> JStr(PyStr(ln.last))],
                            Flush(cur, issues))
             [] "line:" \in ln.marks /\ ln.marks \cap {"file:", "filename:"} = {} ->
                  ScanLines(lines, k + 1,
                            Put("line", IF ln.last.t = "int" THEN ln.last ELSE JNull),
                            issues)
             [] "severity:" \in ln.marks
                /\ ln.marks \cap {"file:", "filename:", "line:"} = {} ->
                  ScanLines(lines, k + 1,
                            Put("severity",
                                IF Lower(PyStr(ln.last)) \in Severities
                                THEN JStr(Lower(PyStr(ln.last))) ELSE JStr("info")),
                            issues)
             [] "message:" \in ln.marks
                /\ ln.marks \cap {"file:", "filename:", "line:", "severity:"} = {} ->
                  ScanLines(lines, k + 1, Put("message", JStr(PyStr(ln.last))), issues)
             [] OTHER -> ScanLines(lines, k + 1, cur, issues)

\* _parse_json_threaded(content): the value returned.
_parse_json_threaded(content) ==
  CASE content.form \in {"json", "fenced"} -> content.value
    [] content.form = "prose" ->
         JDict([summary |-> JStr(content.raw),
                issues |-> JList(ScanLines(content.lines, 1, <<>>, <<>>))])

\* --------------------------------------------------- provider texts used
GoodItem ==
  JDict([file_path |-> JStr("a.py"), line |-> JInt(3), severity |-> JStr("error"),
         category |-> JStr("bug"), message |-> JStr("m"), suggestion |-> JNull])
NoCategoryItem ==
  JDict([file_path |-> JStr("a.py"), line |-> JInt(4), severity |-> JStr("warning"),
         message |-> JStr("n")])
BadSeverityItem ==
  JDict([file_path |-> JStr("a.py"), line |-> JNull, severity |-> JStr("critical"),
         category |-> JStr("bug"), message |-> JStr("x"), suggestion |-> JNull])

JsonText(j) == [form |-> "json", value |-> j]
ProviderTexts ==
  { JsonText(JDict([summary |-> JStr("ok"), issues |-> JList(<<GoodItem>>)])),
    JsonText(JDict([summary |-> JStr("s"), issues |-> JList(<<NoCategoryItem, GoodItem>>)])),
    JsonText(JDict([summary |-> JStr("s"), issues |-> JList(<<GoodItem, BadSeverityItem>>)])),
    JsonText(JDict(<<>>)),
    [form |-> "prose", raw |-> "review",
     lines |-> << ProseLine({"file:"}, JStr("a.py")),
                  ProseLine({"line:"}, JInt(7)),
                  ProseLine({"severity:"}, JStr("critical")),
                  ProseLine({"message:", "severity:"}, JStr("high")),
                  ProseLine({}, JStr("")),
                  ProseLine({"filename:", "line:"}, JStr("b.py")),
                  ProseLine({"line:"}, JStr("x")),
                  ProseLine({"message:"}, JStr("fix")) >>] }

\* ------------------------------------------------------ provider gateway
\* What the environment does at one provider invocation:
\*   lib:  the backend package was importable (ollama / OpenAI is not None);
\*   key:  settings.openai_api_key is set;
\*   kind: "raise" (the chat call raises; `marks` are the substrings of
\*         interest its lower-cased text contains), "content" (it returns
\*         `text`) or "none" (the OpenAI message has no content).
ErrorMarks == {"model not found", "connection refused", "quota", "billing", "authentication"}
\* The error texts the backends are taken to raise: those with at most one
\* of the substrings, and one with two for each provider's precedence.
RaisedMarks ==
  {{}} \cup {{m} : m \in ErrorMarks}
  \cup {{"model not found", "connection refused"}, {"quota", "authentication"}}
NoText == [form |-> "json", value |-> JNull]
ProviderAnswers(provider) ==
  { [lib |-> FALSE, key |-> TRUE, kind |-> "raise", marks |-> {}, text |-> NoText] }
  \cup (IF provider = "openai"
        THEN { [lib |-> TRUE, key |-> FALSE, kind |-> "raise", marks |-> {}, text |-> NoText],
               [lib |-> TRUE, key |-> TRUE, kind |-> "none", marks |-> {}, text |-> NoText] }
        ELSE {})
  \cup { [lib |-> TRUE, key |-> TRUE, kind |-> "raise", marks |-> m, text |-> NoText] :
           m \in RaisedMarks }
  \cup { [lib |-> TRUE, key |-> TRUE, kind |-> "content", marks |-> {}, text |-> t] :
           t \in ProviderTexts }

\* The result of a provider call:
\*   ok:     it returned `val`, the parsed payload;
\*   class:  the class of the failure otherwise, and `error` its text;
\*   chat:   whether the backend was called; parser: whether the parser ran.
Failed(class, error, chat) ==
  [ok |-> FALSE, class |-> class, error |-> error, val |-> JNull,
   chat |-> chat, parser |-> FALSE]
Returned(val) ==
  [ok |-> TRUE, class |-> "text", error |-> "", val |-> val, chat |-> TRUE, parser |-> TRUE]

\* _call_ollama(messages) under the answer `a`.
_call_ollama(a) ==
  IF ~a.lib THEN Failed("NotAvailable", "Ollama package not available", FALSE)
  ELSE IF a.kind = "raise"
  THEN CASE "model not found" \in a.marks ->
              Failed("ModelNotFound",
                     "Ollama model 'llama3' not found. run 'ollama pull llama3'", TRUE)
         [] "model not found" \notin a.marks /\ "connection refused" \in a.marks ->
              Failed("ConnectionFailure",
                     "Ollama service not running. Please start Ollama with 'ollama serve'",
                     TRUE)
         [] OTHER -> Failed("Unknown", "Ollama API error: backend error", TRUE)
  ELSE IF a.kind = "none"
  THEN \* the parser raises TypeError on a content of None, inside the inner try
       [Failed("Unknown", "Ollama API error: expected string or bytes-like object", TRUE)
          EXCEPT !.parser = TRUE]
  ELSE Returned(_parse_json_threaded(a.text))

\* A remote gateway that looks for "authentication" before "quota"/"billing".
_call_openai_auth_first(a) ==
  IF ~a.lib THEN Failed("NotAvailable", "OpenAI client not available", FALSE)
  ELSE IF ~a.key THEN Failed("NotAvailable", "OPENAI_API_KEY not configured", FALSE)
  ELSE IF a.kind = "raise"
  THEN CASE "authentication" \in a.marks ->
              Failed("AuthFailure", "OpenAI API key is invalid or expired", TRUE)
         [] "authentication" \notin a.marks /\ a.marks \cap {"quota", "billing"} # {} ->
              Failed("QuotaExceeded", "OpenAI API quota exceeded or billing issue",
                     TRUE)
         [] OTHER -> Failed("Unknown", "OpenAI API error: backend error", TRUE)
  ELSE LET content == IF a.kind = "none" THEN JsonText(JDict(<<>>)) ELSE a.text
       IN  Returned(_parse_json_threaded(content))

\* _call_openai(messages) under the answer `a`.
_call_openai(a) ==
  IF ~a.lib THEN Failed("NotAvailable", "OpenAI client not available", FALSE)
  ELSE IF ~a.key THEN Failed("NotAvailable", "OPENAI_API_KEY not configured", FALSE)
  ELSE IF a.kind = "raise"
  THEN CASE a.marks \cap {"quota", "billing"} # {} ->
              Failed("QuotaExceeded", "OpenAI API quota exceeded or billing issue",
                     TRUE)
         [] a.marks \cap {"quota", "billing"} = {} /\ "authentication" \in a.marks ->
              Failed("AuthFailure", "OpenAI API key is invalid or expired", TRUE)
         [] OTHER -> Failed("Unknown", "OpenAI API error: backend error", TRUE)
  ELSE \* content = resp.choices[0].message.content or "{}"
       LET content == IF a.kind = "none" THEN JsonText(JDict(<<>>)) ELSE a.text
       IN  Returned(_parse_json_threaded(content))

\* --------------------------------------------------- issue normalization
\* The loop body with an except branch that builds the issue unvalidated.
NormalizeItemUnchecked(item) ==
  IF item.t # "dict"
  THEN [ok |-> FALSE, error |-> "object has no attribute 'get'"]
  ELSE [ok |-> TRUE,
        issue |-> MkIssue(JStr(PyStr(DictGet(item, "file_path", JStr("unknown")))),
                          DictGet(item, "line", JNull),
                          JStr(PyStr(DictGet(item, "severity", JStr("info")))),
                          JStr(PyStr(DictGet(item, "category", JStr("best_practice")))),
                          JStr(PyStr(DictGet(item, "message", JStr("Unparsed issue")))),
                          DictGet(item, "suggestion", JNull))]

\* One iteration of the loop of analyze_pr_with_agent over issues_payload:
\* [ok, issue], or [ok |-> FALSE, error] when the except branch raises too.
NormalizeItem(item) ==
  IF item.t # "dict"
  THEN [ok |-> FALSE, error |-> "object has no attribute 'get'"]
  ELSE IF /\ {"file_path", "severity", "category", "message"} \subseteq DOMAIN item.v
          /\ IssueFieldsValid(item.v.file_path, DictGet(item, "line", JNull),
                              item.v.severity, item.v.category, item.v.message,
                              DictGet(item, "suggestion", JNull))
  THEN [ok |-> TRUE,
        issue |-> MkIssue(item.v.file_path, DictGet(item, "line", JNull),
                          item.v.severity, item.v.category, item.v.message,
                          DictGet(item, "suggestion", JNull))]
  ELSE LET fp == JStr(PyStr(DictGet(item, "file_path", JStr("unknown"))))
           ln == DictGet(item, "line", JNull)
           sv == JStr(PyStr(DictGet(item, "severity", JStr("info"))))
           ct == JStr(PyStr(DictGet(item, "category", JStr("best_practice"))))
           ms == JStr(PyStr(DictGet(item, "message", JStr("Unparsed issue"))))
           sg == DictGet(item, "suggestion", JNull)
       IN  IF IssueFieldsValid(fp, ln, sv, ct, ms, sg)
           THEN [ok |-> TRUE, issue |-> MkIssue(fp, ln, sv, ct, ms, sg)]
           ELSE [ok |-> FALSE, error |-> "1 validation error for AnalysisIssue"]

\* The loop: [ok, issues] or the first error.
RECURSIVE NormalizeItems(_, _, _)
NormalizeItems(items, k, acc) ==
  IF k > Len(items) THEN [ok |-> TRUE, issues |-> acc, error |-> ""]
  ELSE LET r == NormalizeItem(items[k])
       IN  IF r.ok THEN NormalizeItems(items, k + 1, Append(acc, r.issue))
           ELSE [ok |-> FALSE, issues |-> <<>>, error |-> r.error]

\* ------------------------------------------------- analyze_pr_with_agent
\* _build_prompt_threaded(pr): the system and the user message; of the user
\* message, what it embeds.
_build_prompt_threaded(pr) ==
  << [role |-> "system"],
     [role |-> "user", repository |-> pr.owner \o "/" \o pr.repo,
      number |-> pr.number, files |-> Len(pr.files)] >>

\* Line 254, `if not parsed`: whether the heuristic analyzer replaces the
\* provider call's result.
UseHeuristicNever(call) == FALSE
\* A test that falls back only when the provider call raised.
UseHeuristicOnFailure(call) == ~call.ok
UseHeuristic(call) == ~(call.ok /\ Truthy(call.val))

\* Lines 246-249: the backend the gateway invokes for the configured
\* provider: the remote one when "openai" is configured, the local one
\* otherwise.
BackendAlwaysLocal(provider) == "ollama"
Backend(provider) == IF provider = "openai" THEN "openai" ELSE "ollama"

\* analyze_pr_with_agent(pr) with settings.model_provider = provider, under
\* the provider answer a:
\*   ok, result: the AnalysisResult returned; or error: the exception's text;
\*   class:  the provider outcome ("text" or the failure class) and
\*   val:    the payload the provider call returned (None when it raised);
\*   events: the components invoked, in order; the backend invoked follows
\*           "provider".
analyze_pr_with_agent(pr, provider, a) ==
  LET messages == _build_prompt_threaded(pr)
      call == IF Backend(provider) = "openai" THEN _call_openai(a) ELSE _call_ollama(a)
      heuristic == UseHeuristic(call)
      parsed == IF heuristic THEN _heuristic_review(pr) ELSE call.val
      events == <<"prompt", "provider", Backend(provider)>>
                \o (IF call.chat THEN <<"chat">> ELSE <<>>)
                \o (IF call.parser THEN <<"parser">> ELSE <<>>)
                \o (IF heuristic THEN <<"heuristic">> ELSE <<>>)
                \o <<"normalize">>
      payload == IF parsed.t = "dict" THEN DictGet(parsed, "issues", JNull) ELSE JNull
      items == IF Truthy(payload) THEN payload ELSE JList(<<>>)
      norm == IF items.t = "list" THEN NormalizeItems(items.v, 1, <<>>)
              ELSE [ok |-> FALSE, issues |-> <<>>, error |-> "issues is not a list"]
  IN  IF parsed.t # "dict"
      THEN [ok |-> FALSE, error |-> "object has no attribute 'get'",
            class |-> call.class, val |-> call.val, events |-> events]
      ELSE IF ~norm.ok
      THEN [ok |-> FALSE, error |-> norm.error, class |-> call.class, val |-> call.val, events |-> events]
      ELSE [ok |-> TRUE, class |-> call.class, val |-> call.val, events |-> events,
            result |->
              [repo_url |-> "https://github.com/" \o pr.owner \o "/" \o pr.repo,
               pr_number |-> pr.number,
               head_sha |-> pr.head_sha,
               issues |-> norm.issues,
               summary |-> PyStr(DictGet(parsed, "summary", JStr("Code review completed"))),
               model_info |-> [provider |-> JStr(provider)]]]

\* ---------------------------------------------------------------- state
Jobs == 1..NumJobs
PrNumbers == 1..MaxPr
Providers == {"ollama", "openai"}
\* The requests submitted (AnalyzePRRequest): every pull request of the
\* repository unforced, the first one forced as well, and a URL without a
\* repository segment.
Requests ==
  {[repo_url |-> GoodUrl, pr_number |-> n, force |-> FALSE] : n \in PrNumbers}
  \cup {[repo_url |-> GoodUrl, pr_number |-> 1, force |-> TRUE],
         [repo_url |-> ShortUrl, pr_number |-> 1, force |-> FALSE]}

VARIABLES
  model_provider,  \* settings.model_provider
  cache,           \* the Redis store: key -> JSON text (absent keys are not in its domain)
  stored,          \* per key, the result_dict the last successful setex serialized
  status,          \* per job, the Celery task state
  info,            \* per job, what the result backend holds (meta, result or error)
  pc,              \* per job, the position in analyze_pr_task
  payload,         \* per job, the request
  pr_data,         \* per job, the fetched PRData
  cached_result,   \* per job, what redis_client.get returned (line 42)
  result_dict,     \* per job, the result computed by the analysis
  outcome,         \* per job, the outcome of its provider call: [class, val]
  log,             \* per job, the steps taken and components invoked, in order
  key_calls,       \* the calls of build_cache_key made so far: arguments and key
  batch,           \* the one call of POST /analyze-prs-batch: requests, items, response
  call             \* the last call of a function of reviewer.py made on its own: fn, arg, ret

vars == <<model_provider, cache, stored, status, info, pc, payload, pr_data,
          cached_result, result_dict, outcome, log, key_calls, batch, call>>

None == [t |-> "null"]

Init ==
  /\ model_provider \in Providers
  /\ cache = <<>>
  /\ stored = <<>>
  /\ status = [j \in Jobs |-> "NONE"]
  /\ info = [j \in Jobs |-> [kind |-> "none"]]
  /\ pc = [j \in Jobs |-> "idle"]
  /\ payload = [j \in Jobs |-> None]
  /\ pr_data = [j \in Jobs |-> None]
  /\ cached_result = [j \in Jobs |-> None]
  /\ result_dict = [j \in Jobs |-> None]
  /\ outcome = [j \in Jobs |-> [class |-> "none", val |-> None]]
  /\ log = [j \in Jobs |-> <<>>]
  /\ key_calls = <<>>
  /\ batch = [phase |-> "idle"]
  /\ call = [fn |-> "none"]

\* The cache key of a job that has fetched its snapshot (tasks.py line 38).
KeyOf(j) ==
  build_cache_key(UrlText(payload[j].repo_url), payload[j].pr_number, pr_data[j].head_sha)

\* A write that stores nothing.
SetDropped(f, k, v) == f
\* f with key k set to v.
Set(f, k, v) == [x \in DOMAIN f \cup {k} |-> IF x = k THEN v ELSE f[x]]
\* f without key k.
Del(f, k) == [x \in DOMAIN f \ {k} |-> f[x]]

\* The task raising, with the exception's text lost.
RaiseNoText(j, text) ==
  /\ status' = [status EXCEPT ![j] = "FAILURE"]
  /\ info' = [info EXCEPT ![j] = [kind |-> "error", error |-> ""]]
  /\ pc' = [pc EXCEPT ![j] = "end"]

\* The task raising: Celery stores FAILURE and the exception.
Raise(j, text) ==
  /\ status' = [status EXCEPT ![j] = "FAILURE"]
  /\ info' = [info EXCEPT ![j] = [kind |-> "error", error |-> text]]
  /\ pc' = [pc EXCEPT ![j] = "end"]

\* A task that ends without returning its value.
ReturnDropped(j, value) ==
  /\ status' = [status EXCEPT ![j] = "SUCCESS"]
  /\ info' = [info EXCEPT ![j] = [kind |-> "result", result |-> None]]
  /\ pc' = [pc EXCEPT ![j] = "end"]

\* The task returning: Celery stores SUCCESS and the return value.
Return(j, value) ==
  /\ status' = [status EXCEPT ![j] = "SUCCESS"]
  /\ info' = [info EXCEPT ![j] = [kind |-> "result", result |-> value]]
  /\ pc' = [pc EXCEPT ![j] = "end"]

\* POST /analyze-pr: analyze_pr_task.delay(payload). Jobs are taken in order.
Submit(j) ==
  /\ pc[j] = "idle"
  /\ \A i \in 1..(j - 1) : pc[i] # "idle"
  /\ \E r \in Requests : payload' = [payload EXCEPT ![j] = r]
  /\ status' = [status EXCEPT ![j] = "PENDING"]
  /\ pc' = [pc EXCEPT ![j] = "start"]
  /\ log' = [log EXCEPT ![j] = <<"SUBMITTED">>]
  /\ UNCHANGED <<call, batch, key_calls, model_provider, cache, stored, info, pr_data, cached_result, result_dict, outcome>>

\* analyze_pr_task, lines 22-28: update_state(PROCESSING, fetching_pr_data).
Start(j) ==
  /\ pc[j] = "start"
  /\ status' = [status EXCEPT ![j] = "PROCESSING"]
  /\ info' = [info EXCEPT ![j] = [kind |-> "stage", stage |-> "fetching_pr_data"]]
  /\ pc' = [pc EXCEPT ![j] = "fetch"]
  /\ log' = [log EXCEPT ![j] = Append(@, "FETCHING")]
  /\ UNCHANGED <<call, batch, key_calls, model_provider, cache, stored, payload, pr_data, cached_result, result_dict, outcome>>

\* Line 25: skip_cache = bool(payload.get("force", False)).
SkipCacheNever(p) == FALSE
SkipCache(p) == p.force

\* Lines 30-39: the fetch; on an exception update_state(FAILURE) and re-raise.
Fetch(j) ==
  /\ pc[j] = "fetch"
  /\ \E ans \in GithubAnswers, sha \in HeadShas :
       LET r == fetch_pr_data(payload[j].repo_url, payload[j].pr_number, ans, sha)
       IN  IF r.ok
           THEN /\ pr_data' = [pr_data EXCEPT ![j] = r.pr]
                /\ pc' = [pc EXCEPT ![j] = IF SkipCache(payload[j]) THEN "review" ELSE "cache_get"]
                /\ log' = [log EXCEPT ![j] = Append(@, "fetch")]
                /\ UNCHANGED <<status, info>>
           ELSE /\ Raise(j, r.error)
                /\ log' = [log EXCEPT ![j] = Append(Append(@, "fetch"), "FAILED")]
                /\ UNCHANGED pr_data
  /\ UNCHANGED <<call, batch, key_calls, model_provider, cache, stored, payload, cached_result, result_dict, outcome>>

\* redis_client.get(key): the text stored, or None.
RedisGet(key) == IF key \in DOMAIN cache THEN cache[key] ELSE None

\* Line 43, `if cached_result`: None and the empty text are falsy.
IsHitNever(cached) == FALSE
IsHit(cached) == cached # None /\ Len(cached) > 0

\* Lines 41-46: the cache read, outside any try block. `up` is whether Redis
\* answers; when it does not, redis_client.get raises.
CacheGet(j) ==
  /\ pc[j] = "cache_get"
  /\ \E up \in BOOLEAN :
       IF ~up
       THEN /\ Raise(j, "Error connecting to Redis")
            /\ log' = [log EXCEPT ![j] = Append(Append(@, "cache_get"), "FAILED")]
            /\ UNCHANGED cached_result
       ELSE /\ cached_result' = [cached_result EXCEPT ![j] = RedisGet(KeyOf(j))]
            /\ IF IsHit(RedisGet(KeyOf(j)))
               THEN /\ Return(j, JsonLoads(RedisGet(KeyOf(j))))
                    /\ log' = [log EXCEPT ![j] = @ \o <<"cache_get", "CACHE_HIT", "DONE">>]
               ELSE /\ pc' = [pc EXCEPT ![j] = "review"]
                    /\ log' = [log EXCEPT ![j] = Append(@, "cache_get")]
                    /\ UNCHANGED <<status, info>>
  /\ UNCHANGED <<call, batch, key_calls, model_provider, cache, stored, payload, pr_data, result_dict, outcome>>

\* A fallback dict that carries the configured provider and no error.
FallbackResultUnmarked(j, text) ==
  JDict([repo_url |-> JStr(UrlText(payload[j].repo_url)),
         pr_number |-> JInt(payload[j].pr_number),
         head_sha |-> pr_data[j].head_sha,
         issues |-> JList(<<>>),
         summary |-> JStr("Analysis failed: " \o text \o ". Try again or check logs."),
         model_info |-> JDict([provider |-> JStr(model_provider)])])

\* The dict analyze_pr_task builds when the analysis raised (lines 58-65).
FallbackResult(j, text) ==
  JDict([repo_url |-> JStr(UrlText(payload[j].repo_url)),
         pr_number |-> JInt(payload[j].pr_number),
         head_sha |-> pr_data[j].head_sha,
         issues |-> JList(<<>>),
         summary |-> JStr("Analysis failed: " \o text \o ". Try again or check logs."),
         model_info |-> JDict([provider |-> JStr("fallback"), error |-> JStr(text)])])

\* Line 48: update_state(PROCESSING, ai_code_review).
Review(j) ==
  /\ pc[j] = "review"
  /\ info' = [info EXCEPT ![j] = [kind |-> "stage", stage |-> "ai_code_review"]]
  /\ pc' = [pc EXCEPT ![j] = "analyze"]
  /\ log' = [log EXCEPT ![j] = Append(@, "REVIEWING")]
  /\ UNCHANGED <<call, batch, key_calls, model_provider, cache, stored, status, payload, pr_data,
                 cached_result, result_dict, outcome>>

\* Lines 51-66: the result_dict of the analysis under the provider answer a;
\* an exception of the analysis gives the fallback dict.
Computed(j, r) == IF r.ok THEN ResultDump(r.result) ELSE FallbackResult(j, r.error)

\* Lines 51-75: the analysis under one provider answer, the cache write
\* inside try/except, and the return. `up` is whether Redis answers; when it
\* does not, setex raises and the exception is swallowed.
Analyze(j) ==
  /\ pc[j] = "analyze"
  /\ \E a \in ProviderAnswers(model_provider), up \in BOOLEAN :
       LET r == analyze_pr_with_agent(pr_data[j], model_provider, a)
           d == Computed(j, r)
       IN  /\ result_dict' = [result_dict EXCEPT ![j] = d]
           /\ outcome' = [outcome EXCEPT ![j] = [class |-> r.class, val |-> r.val]]
           /\ IF up
              THEN /\ cache' = Set(cache, KeyOf(j), JsonDumps(d))
                   /\ stored' = Set(stored, KeyOf(j), d)
              ELSE UNCHANGED <<cache, stored>>
           /\ log' = [log EXCEPT ![j] =
                        @ \o r.events \o (IF r.ok THEN <<>> ELSE <<"fallback">>)
                          \o <<IF up THEN "cache_set" ELSE "cache_set_failed", "DONE">>]
           /\ Return(j, d)
  /\ UNCHANGED <<call, batch, key_calls, model_provider, payload, pr_data, cached_result>>

\* The TTL of an entry (settings.cache_ttl_seconds) running out.
Expire(k) ==
  /\ k \in DOMAIN cache
  /\ cache' = Del(cache, k)
  /\ stored' = Del(stored, k)
  /\ UNCHANGED <<call, batch, key_calls, model_provider, status, info, pc, payload, pr_data,
                 cached_result, result_dict, outcome, log>>


Next ==
  \/ \E j \in Jobs : Submit(j)
  \/ \E j \in Jobs : Start(j)
  \/ \E j \in Jobs : Fetch(j)
  \/ \E j \in Jobs : CacheGet(j)
  \/ \E j \in Jobs : Review(j)
  \/ \E j \in Jobs : Analyze(j)
  \/ \E k \in DOMAIN cache : Expire(k)

Spec == Init /\ [][Next]_vars

\* The worker moving job j's task on from the position where it stands. The
\* steps of Next that do so are Start, Fetch, CacheGet, Review and Analyze of
\* j, and each of them is enabled whenever the task stands at its position.
TaskStep(j) ==
  /\ pc[j] \notin {"idle", "end"}
  /\ \E p \in {"fetch", "cache_get", "review", "analyze", "end"} :
       pc' = [pc EXCEPT ![j] = p]

\* A worker runs a task it has taken to its end: every call it makes returns.
FairSpec == Spec /\ \A j \in Jobs : WF_pc(TaskStep(j))

\* ------------------------------------------------ GET /status, /results
\* async_result.result: what the result backend holds for the task: the
\* return value, the meta of the last update_state, or the exception.
AsyncResult(j) ==
  CASE info[j].kind = "result" -> info[j].result
    [] info[j].kind = "stage" -> JDict([stage |-> JStr(info[j].stage)])
    [] info[j].kind = "error" -> JStr(info[j].error)
    [] OTHER -> JNull

\* A ready() that takes every state after PENDING for a final one.
ready_started(state) == state \notin {"NONE", "PENDING"}
\* async_result.ready(): the task's state is a final one. PROCESSING is a
\* custom state and is not.
ready(state) == state \in {"SUCCESS", "FAILURE", "REVOKED"}

\* get_status(task_id), lines 118-128. A task id the backend knows nothing
\* of reads as PENDING.
get_status(j) ==
  LET state == IF status[j] = "NONE" THEN "PENDING" ELSE status[j]
  IN  [status |-> state, result_ready |-> ready(state),
       error |-> IF state = "FAILURE" THEN JStr(PyStr(AsyncResult(j))) ELSE JNull]

\* get_results(task_id), lines 132-140: the HTTP response.
get_results(j) ==
  IF ~ready(status[j])
  THEN [status_code |-> 202, detail |-> JStr("Result not ready")]
  ELSE IF status[j] = "FAILURE"
  THEN [status_code |-> 500, detail |-> JStr(PyStr(AsyncResult(j)))]
  ELSE [status_code |-> 200, content |-> AsyncResult(j)]

\* ------------------------------------------------ build_cache_key alone
\* Number of calls of build_cache_key in a behaviour of KeySpec.
MaxCalls == 2
\* The arguments build_cache_key is called with: repository URLs (one that
\* contains the separator), head commits absent, empty, equal to the
\* sentinel's text, and with the separator in them.
KeyRepoUrls == {"https://github.com/user/repo", "r", "r:1"}
KeyShas == {JNull, JStr(""), JStr("no-sha"), JStr("abc"), JStr("1:abc")}

\* One call of build_cache_key, by any caller.
KeyCall ==
  /\ Len(key_calls) < MaxCalls
  /\ \E u \in KeyRepoUrls, n \in PrNumbers, sha \in KeyShas :
       key_calls' = Append(key_calls,
                           [repo_url |-> u, pr_number |-> n, head_sha |-> sha,
                            key |-> build_cache_key(u, n, sha)])
  /\ UNCHANGED <<call, model_provider, cache, stored, status, info, pc, payload, pr_data,
                 cached_result, result_dict, outcome, log, batch>>

KeySpec == Init /\ [][KeyCall]_vars

\* ------------------------------------------------ POST /analyze-prs-batch
\* Largest batch whose items are followed one by one.
MaxBatch == 2
\* main.py line 85: more than 10 requests are refused.
BatchCap == 10
BatchLens == (0..MaxBatch) \cup {BatchCap + 1}
BatchRequests == Requests
\* The batches of n requests: every one up to MaxBatch, and beyond it those
\* that repeat one request.
BatchesOf(n) ==
  IF n <= MaxBatch THEN [1..n -> BatchRequests]
  ELSE {[i \in 1..n |-> r] : r \in BatchRequests}

\* An item that serves the entry cached under the request's key, when there
\* is one, in place of the fresh result.
ItemSuccessCached(req, result) ==
  LET key == build_cache_key(UrlText(req.repo_url), req.pr_number, result.head_sha)
  IN  [repo_url |-> UrlText(req.repo_url), pr_number |-> req.pr_number,
       status |-> "success",
       result |-> IF key \in DOMAIN stored THEN stored[key] ELSE ResultDump(result)]

\* analyze_single_pr(req), lines 93-98 and 100-105: the item returned.
ItemSuccess(req, result) ==
  [repo_url |-> UrlText(req.repo_url), pr_number |-> req.pr_number,
   status |-> "success", result |-> ResultDump(result)]
ItemError(req, text) ==
  [repo_url |-> UrlText(req.repo_url), pr_number |-> req.pr_number,
   status |-> "error", error |-> text]

\* asyncio.as_completed in place of gather: the items in the order in which
\* they completed.
AsCompleted(items, order) == [k \in 1..Len(order) |-> items[order[k]].item]
\* Line 108, asyncio.gather(*tasks): the items' values in the order of the
\* tasks, whatever the order in which they completed.
Gather(items, order) == [i \in 1..Len(items) |-> items[i].item]

\* The handler up to line 107: refuse a batch over the cap, else create one
\* coroutine per request.
BatchSubmit ==
  /\ batch.phase = "idle"
  /\ \E n \in BatchLens : \E reqs \in BatchesOf(n) :
       IF Len(reqs) > BatchCap
       THEN batch' = [phase |-> "rejected", requests |-> reqs, status_code |-> 400,
                      detail |-> "Maximum 10 PRs per batch"]
       ELSE batch' = [phase |-> "running", requests |-> reqs,
                      items |-> [i \in 1..n |-> [pc |-> "fetch"]],
                      order |-> <<>>]
  /\ UNCHANGED <<call, model_provider, cache, stored, status, info, pc, payload, pr_data,
                 cached_result, result_dict, outcome, log, key_calls>>

\* Lines 90-91 of item i: await fetch_pr_data; a ValueError is caught at
\* line 99 and the item is the error dict.
BatchFetch(i) ==
  /\ batch.phase = "running"
  /\ i \in 1..Len(batch.requests)
  /\ batch.items[i].pc = "fetch"
  /\ \E ans \in GithubAnswers, sha \in HeadShas :
       LET req == batch.requests[i]
           r == fetch_pr_data(req.repo_url, req.pr_number, ans, sha)
       IN  batch' =
             IF r.ok
             THEN [batch EXCEPT !.items[i] =
                     [pc |-> "analyze", github |-> [ans |-> ans, sha |-> sha],
                      pr |-> r.pr]]
             ELSE [batch EXCEPT !.items[i] =
                     [pc |-> "done", github |-> [ans |-> ans, sha |-> sha],
                      item |-> ItemError(req, r.error)],
                   !.order = Append(@, i)]
  /\ UNCHANGED <<call, model_provider, cache, stored, status, info, pc, payload, pr_data,
                 cached_result, result_dict, outcome, log, key_calls>>

\* Lines 92-98 of item i: await analyze_pr_with_agent; an exception of the
\* analysis is caught at line 99.
BatchAnalyze(i) ==
  /\ batch.phase = "running"
  /\ i \in 1..Len(batch.requests)
  /\ batch.items[i].pc = "analyze"
  /\ \E a \in ProviderAnswers(model_provider) :
       LET req == batch.requests[i]
           r == analyze_pr_with_agent(batch.items[i].pr, model_provider, a)
       IN  batch' =
             [batch EXCEPT !.items[i] =
                [pc |-> "done", github |-> batch.items[i].github, answer |-> a,
                 item |-> IF r.ok THEN ItemSuccess(req, r.result)
                          ELSE ItemError(req, r.error)],
              !.order = Append(@, i)]
  /\ UNCHANGED <<call, model_provider, cache, stored, status, info, pc, payload, pr_data,
                 cached_result, result_dict, outcome, log, key_calls>>

\* Lines 108-114: gather returns once every coroutine has; the response.
BatchGather ==
  /\ batch.phase = "running"
  /\ \A i \in 1..Len(batch.requests) : batch.items[i].pc = "done"
  /\ batch' = [phase |-> "done", requests |-> batch.requests, items |-> batch.items,
               order |-> batch.order,
               response |-> [total_prs |-> Len(batch.requests),
                             results |-> Gather(batch.items, batch.order)]]
  /\ UNCHANGED <<call, model_provider, cache, stored, status, info, pc, payload, pr_data,
                 cached_result, result_dict, outcome, log, key_calls>>

BatchNext ==
  \/ BatchSubmit
  \/ \E i \in 1..MaxBatch : BatchFetch(i)
  \/ \E i \in 1..MaxBatch : BatchAnalyze(i)
  \/ BatchGather

BatchSpec == Init /\ [][BatchNext]_vars

\* The batch endpoint called while the Redis store holds what an earlier job
\* left: the result of a job for pull request 1 of GoodUrl at head "abc",
\* to which the local provider answered the first provider text.
SeedResult ==
  LET pr == fetch_pr_data(GoodUrl, 1, "200", "abc").pr
      a == [lib |-> TRUE, key |-> TRUE, kind |-> "content", marks |-> {},
            text |-> JsonText(JDict([summary |-> JStr("ok"),
                                     issues |-> JList(<<GoodItem>>)]))]
  IN  ResultDump(analyze_pr_with_agent(pr, "ollama", a).result)
SeedKey == build_cache_key(UrlText(GoodUrl), 1, JStr("abc"))
BatchInit ==
  /\ model_provider \in Providers
  /\ cache = Set(<<>>, SeedKey, JsonDumps(SeedResult))
  /\ stored = Set(<<>>, SeedKey, SeedResult)
  /\ status = [j \in Jobs |-> "NONE"]
  /\ info = [j \in Jobs |-> [kind |-> "none"]]
  /\ pc = [j \in Jobs |-> "idle"]
  /\ payload = [j \in Jobs |-> None]
  /\ pr_data = [j \in Jobs |-> None]
  /\ cached_result = [j \in Jobs |-> None]
  /\ result_dict = [j \in Jobs |-> None]
  /\ outcome = [j \in Jobs |-> [class |-> "none", val |-> None]]
  /\ log = [j \in Jobs |-> <<>>]
  /\ key_calls = <<>>
  /\ batch = [phase |-> "idle"]
  /\ call = [fn |-> "none"]

CachedBatchSpec == BatchInit /\ [][BatchNext]_vars

\* ---------------------------------------------- _heuristic_review alone
\* Largest number of lines of a patch handed to _heuristic_review.
MaxLines == 2
\* The patch lines: context, removed and added ones, with every combination
\* of the three patterns, at lengths around the 120-character threshold.
LineLens == {20, 120, 121, 130}
PatchLines ==
  {PatchLine(p, pr, co, td, n) :
     p \in {"+", "-", " "}, pr \in BOOLEAN, co \in BOOLEAN, td \in BOOLEAN, n \in LineLens}
Patches == UNION {[1..n -> PatchLines] : n \in 0..MaxLines}
\* The file lists: one file with any patch; a file without a patch before
\* one with a one-line patch; two files with one added line each.
ScanInputs ==
  {<<[filename |-> "a.py", patch |-> JList(q)]>> : q \in Patches}
  \cup {<<[filename |-> "b.js", patch |-> JNull],
          [filename |-> "c.js", patch |-> JList(<<l>>)]>> : l \in PatchLines}
  \cup {<<[filename |-> "a.py", patch |-> JList(<<l>>)],
          [filename |-> "c.js", patch |-> JList(<<m>>)]>> :
           l \in {x \in PatchLines : x.prefix = "+"},
           m \in {x \in PatchLines : x.prefix = "+" /\ x.len > 120}}

\* One call of _heuristic_review on a snapshot with the files `files`.
HeuristicCall ==
  /\ call.fn = "none"
  /\ \E files \in ScanInputs :
       call' = [fn |-> "_heuristic_review", arg |-> files,
                ret |-> _heuristic_review([owner |-> "user", repo |-> "repo", number |-> 1,
                                           head_sha |-> JStr("abc"), files |-> files])]
  /\ UNCHANGED <<model_provider, cache, stored, status, info, pc, payload, pr_data,
                 cached_result, result_dict, outcome, log, key_calls, batch>>

HeuristicSpec == Init /\ [][HeuristicCall]_vars

\* ------------------------------------------- _parse_json_threaded alone
\* Largest number of lines of a text that is not JSON.
MaxProse == 3
\* The lines of such a text: file markers (one that also holds "line:"),
\* line numbers that are integers and not, severities inside and outside
\* the enum and in upper case, messages, and a line without a marker.
ProseLines ==
  { ProseLine({"file:"}, JStr("a.py")),
    ProseLine({"filename:"}, JStr("b.py")),
    ProseLine({"file:", "line:"}, JInt(3)),
    ProseLine({"line:"}, JInt(7)),
    ProseLine({"line:"}, JStr("x")),
    ProseLine({"severity:"}, JStr("critical")),
    ProseLine({"severity:"}, JStr("ERROR")),
    ProseLine({"severity:"}, JStr("warning")),
    ProseLine({"message:"}, JStr("fix")),
    ProseLine({"message:", "severity:"}, JStr("high")),
    ProseLine({}, JStr("")) }
ParseInputs ==
  {[form |-> "prose", raw |-> "review", lines |-> q] :
     q \in UNION {[1..n -> ProseLines] : n \in 0..MaxProse}}
  \cup {t \in ProviderTexts : t.form # "prose"}

\* One call of _parse_json_threaded.
ParseCall ==
  /\ call.fn = "none"
  /\ \E content \in ParseInputs :
       call' = [fn |-> "_parse_json_threaded", arg |-> content,
                ret |-> _parse_json_threaded(content)]
  /\ UNCHANGED <<model_provider, cache, stored, status, info, pc, payload, pr_data,
                 cached_result, result_dict, outcome, log, key_calls, batch>>

ParseSpec == Init /\ [][ParseCall]_vars

\* --------------------------------------- _call_ollama, _call_openai alone
\* The answers of the environment to one provider invocation: the package
\* importable or not, the API key set or not, and a chat call that raises
\* with any combination of the substrings of interest in its text, returns
\* a text, or returns no content.
CallAnswers ==
  {[lib |-> l, key |-> k, kind |-> "raise", marks |-> m, text |-> NoText] :
     l \in BOOLEAN, k \in BOOLEAN, m \in SUBSET ErrorMarks}
  \cup {[lib |-> l, key |-> k, kind |-> "content", marks |-> {}, text |-> t] :
          l \in BOOLEAN, k \in BOOLEAN, t \in ProviderTexts}
  \cup {[lib |-> l, key |-> k, kind |-> "none", marks |-> {}, text |-> NoText] :
          l \in BOOLEAN, k \in BOOLEAN}

\* One call of _call_ollama or of _call_openai.
ProviderCall ==
  /\ call.fn = "none"
  /\ \E a \in CallAnswers :
       \/ call' = [fn |-> "_call_ollama", arg |-> a, ret |-> _call_ollama(a)]
       \/ call' = [fn |-> "_call_openai", arg |-> a, ret |-> _call_openai(a)]
  /\ UNCHANGED <<model_provider, cache, stored, status, info, pc, payload, pr_data,
                 cached_result, result_dict, outcome, log, key_calls, batch>>

ProviderSpec == Init /\ [][ProviderCall]_vars

\* ================================================================ claims
Contains(q, x) == \E i \in 1..Len(q) : q[i] = x
FailureClasses ==
  {"NotAvailable", "AuthFailure", "QuotaExceeded", "ConnectionFailure",
   "ModelNotFound", "Unknown"}
\* The components of the analysis, as they appear in a job's log.
Components == {"prompt", "provider", "chat", "parser", "heuristic", "normalize"}
\* The job ran its own analysis to the end.
Analyzed(j) == pc[j] = "end" /\ outcome[j].class # "none"

\* C1: a job is FAILED only when its snapshot fetch raised; every error after
\* a successful fetch is absorbed and the job ends DONE.
C1_FailedOnlyByFetch ==
  \A j \in Jobs : status[j] = "FAILURE" => pr_data[j] = None

\* C2: once the snapshot fetch of a job has succeeded, the job eventually
\* reaches DONE, whatever the provider answers.
C2_FetchedLeadsToDone ==
  \A j \in Jobs : (pr_data[j] # None) ~> (status[j] = "SUCCESS")

\* A well-formed dumped AnalysisIssue / AnalysisResult.
WellFormedIssue(i) ==
  /\ i.t = "dict"
  /\ DOMAIN i.v = {"file_path", "line", "severity", "category", "message", "suggestion"}
  /\ i.v.file_path.t = "str"
  /\ i.v.line.t \in {"null", "int"}
  /\ i.v.severity \in {JStr(x) : x \in {"info", "warning", "error"}}
  /\ i.v.category \in {JStr(x) : x \in {"style", "bug", "performance", "best_practice"}}
  /\ i.v.message.t = "str"
  /\ i.v.suggestion.t \in {"null", "str"}
WellFormedResult(d) ==
  /\ d.t = "dict"
  /\ DOMAIN d.v = {"repo_url", "pr_number", "head_sha", "issues", "summary", "model_info"}
  /\ d.v.repo_url.t = "str"
  /\ d.v.pr_number.t = "int"
  /\ d.v.head_sha.t \in {"null", "str"}
  /\ d.v.summary.t = "str"
  /\ d.v.model_info.t = "dict"
  /\ d.v.issues.t = "list"
  /\ \A k \in 1..Len(d.v.issues.v) : WellFormedIssue(d.v.issues.v[k])

\* C3: every result a DONE job returns and every cache entry is a
\* well-formed AnalysisResult, with every issue's severity and category in
\* their enumerations.
C3_WellFormed ==
  /\ \A j \in Jobs :
       status[j] = "SUCCESS" => info[j].kind = "result" /\ WellFormedResult(info[j].result)
  /\ \A k \in DOMAIN cache : WellFormedResult(JsonLoads(cache[k]))
C3_Witness ==
  \E j, k \in Jobs :
    /\ status[j] = "SUCCESS" /\ cached_result[j] # None
    /\ status[k] = "SUCCESS" /\ Contains(log[k], "fallback")
    /\ DOMAIN cache # {}

\* C4: when the snapshot fetch raises, the job ends FAILED with the fetch
\* error's text, having read and written no cache entry and invoked no
\* component of the analysis; the cache store is as it was.
C4_FailedJob(j) ==
  /\ status[j] = "FAILURE"
  /\ info[j].kind = "error"
  /\ \E ans \in GithubAnswers, sha \in HeadShas :
       LET r == fetch_pr_data(payload[j].repo_url, payload[j].pr_number, ans, sha)
       IN  ~r.ok /\ info[j].error = r.error
  /\ cached_result[j] = None
  /\ result_dict[j] = None
  /\ outcome[j].class = "none"
  /\ log[j] = <<"SUBMITTED", "FETCHING", "fetch", "FAILED">>
C4_FetchFailure ==
  /\ [](\A j \in Jobs : (pc[j] = "end" /\ pr_data[j] = None) => C4_FailedJob(j))
  /\ [][\A j \in Jobs : (pc[j] = "fetch" /\ pc'[j] = "end")
                           => (cache' = cache /\ stored' = stored)]_vars
C4_Witness ==
  \E j \in Jobs :
    /\ pc[j] = "end" /\ pr_data[j] = None /\ status[j] = "FAILURE"
    /\ DOMAIN cache # {}

\* C5: a job with force=false whose cache read finds an entry under its key
\* returns that entry, decoded, and invokes neither the prompt builder nor
\* the provider gateway nor the heuristic analyzer.
C5_CacheHitShortCircuits ==
  \A j \in Jobs :
    cached_result[j] # None =>
      /\ ~payload[j].force
      /\ pc[j] = "end" /\ status[j] = "SUCCESS"
      /\ info[j] = [kind |-> "result", result |-> JsonLoads(cached_result[j])]
      /\ result_dict[j] = None /\ outcome[j].class = "none"
      /\ \A c \in Components : ~Contains(log[j], c)
C5_Witness ==
  \E j \in Jobs :
    /\ cached_result[j] # None /\ status[j] = "SUCCESS" /\ ~payload[j].force
    /\ \E k \in Jobs \ {j} : Contains(log[k], "cache_set")

\* C6: on a cache hit the result returned equals the result_dict the last
\* writer serialized under the key.
C6_HitReturnsStored ==
  [][\A j \in Jobs :
       (pc[j] = "cache_get" /\ status'[j] = "SUCCESS")
         => (KeyOf(j) \in DOMAIN stored /\ info'[j].result = stored[KeyOf(j)])]_vars
C6_Witness ==
  \E j \in Jobs :
    /\ cached_result[j] # None /\ status[j] = "SUCCESS"
    /\ \E i \in 1..Len(info[j].result.v.issues.v) :
         info[j].result.v.issues.v[i].v.suggestion = JNull

\* C7: a job with force=true never reads the cache; it builds the prompt and
\* then calls the provider, and when its cache write succeeds the entry under
\* its key is the result it computed.
C7_ForcedJob(j) ==
  /\ pc[j] # "cache_get"
  /\ cached_result[j] = None
  /\ (pc[j] = "end" /\ pr_data[j] # None) =>
       /\ status[j] = "SUCCESS"
       /\ \E a, b \in 1..Len(log[j]) :
            a < b /\ log[j][a] = "prompt" /\ log[j][b] = "provider"
C7_ForceBypassesCache ==
  /\ [](\A j \in Jobs : (payload[j] # None /\ payload[j].force) => C7_ForcedJob(j))
  /\ [][\A j \in Jobs :
          (payload[j] # None /\ payload[j].force /\ pc[j] = "analyze"
           /\ log'[j][Len(log'[j]) - 1] = "cache_set")
            => (KeyOf(j) \in DOMAIN cache'
                /\ JsonLoads(cache'[KeyOf(j)]) = info'[j].result
                /\ info'[j].result = result_dict'[j])]_vars
C7_Witness ==
  \E j, k \in Jobs :
    /\ pc[j] = "end" /\ pc[k] = "end" /\ pr_data[j] # None /\ pr_data[k] # None
    /\ ~payload[j].force /\ payload[k].force
    /\ KeyOf(j) = KeyOf(k)
    /\ Contains(log[j], "cache_set") /\ Contains(log[k], "cache_set")
    /\ result_dict[j] # result_dict[k]
    /\ KeyOf(k) \in DOMAIN cache /\ cache[KeyOf(k)] = JsonDumps(result_dict[k])

C9_FallbackMarked ==
  \A j \in Jobs :
    outcome[j].class = "ConnectionFailure" =>
      /\ status[j] = "SUCCESS"
      /\ info[j].result.v.summary # JStr("")
      /\ info[j].result.v.model_info # JDict([provider |-> JStr(model_provider)])

\* C10: an issue record of the parsed provider payload with a severity
\* outside {info, warning, error} appears in the job's result with severity
\* "info", and one without a category with category "best_practice".
C10_Coerced ==
  \A j \in Jobs :
    (/\ Analyzed(j) /\ outcome[j].class = "text"
     /\ outcome[j].val.t = "dict"
     /\ "issues" \in DOMAIN outcome[j].val.v
     /\ outcome[j].val.v.issues.t = "list") =>
      LET items == outcome[j].val.v.issues.v
          issues == info[j].result.v.issues.v
      IN  \A k \in 1..Len(items) :
            /\ (/\ items[k].t = "dict" /\ "severity" \in DOMAIN items[k].v
                /\ items[k].v.severity \notin {JStr(x) : x \in Severities})
                 => (k <= Len(issues) /\ issues[k].v.severity = JStr("info"))
            /\ (items[k].t = "dict" /\ "category" \notin DOMAIN items[k].v)
                 => (k <= Len(issues) /\ issues[k].v.category = JStr("best_practice"))

\* C11: a malformed issue record never causes the other records to be
\* discarded: for a parsed payload of n issue records the job's result holds
\* n issues, the well-formed ones unchanged.
C11_NoneDiscarded ==
  \A j \in Jobs :
    (/\ Analyzed(j) /\ outcome[j].class = "text"
     /\ outcome[j].val.t = "dict"
     /\ "issues" \in DOMAIN outcome[j].val.v
     /\ outcome[j].val.v.issues.t = "list"
     /\ \A k \in 1..Len(outcome[j].val.v.issues.v) :
          outcome[j].val.v.issues.v[k].t = "dict") =>
      LET items == outcome[j].val.v.issues.v
          issues == info[j].result.v.issues.v
      IN  /\ Len(issues) = Len(items)
          /\ \A k \in 1..Len(items) :
               WellFormedIssue(items[k]) => issues[k] = items[k]

\* C12: the response parser is total: for every provider text it returns a
\* structure with a summary (a string) and an issues sequence.
C12_ParserTotal ==
  \A j \in Jobs :
    outcome[j].class = "text" =>
      /\ outcome[j].val.t = "dict"
      /\ {"summary", "issues"} \subseteq DOMAIN outcome[j].val.v
      /\ outcome[j].val.v.summary.t = "str"
      /\ outcome[j].val.v.issues.t = "list"

\* C13: a failure of the cache write is swallowed: the job still ends DONE
\* and returns exactly the result it computed, which is the result of the
\* analysis under its provider answer, as when the write succeeds.
C13_WriteFailureSwallowed ==
  \A j \in Jobs :
    Contains(log[j], "cache_set_failed") =>
      /\ pc[j] = "end" /\ status[j] = "SUCCESS"
      /\ result_dict[j] # None
      /\ info[j] = [kind |-> "result", result |-> result_dict[j]]
      /\ \E a \in ProviderAnswers(model_provider) :
           LET r == analyze_pr_with_agent(pr_data[j], model_provider, a)
           IN  /\ result_dict[j] = Computed(j, r)
               /\ outcome[j] = [class |-> r.class, val |-> r.val]
C13_Witness ==
  \E j \in Jobs :
    /\ Contains(log[j], "cache_set_failed") /\ status[j] = "SUCCESS"
    /\ Len(info[j].result.v.issues.v) > 0
    /\ KeyOf(j) \notin DOMAIN cache

\* How many times x stands in the log of job j.
Count(j, x) == Cardinality({i \in 1..Len(log[j]) : log[j][i] = x})

\* C14: a job makes at most one provider invocation, to the provider the
\* configuration chooses (the local one unless the remote one is configured):
\* no retry and no try of the other provider after a failure, and no
\* invocation at all in a job that ends by cache hit or fetch failure.
C14_OneProvider ==
  \A j \in Jobs :
    /\ Count(j, "provider") <= 1 /\ Count(j, "chat") <= 1
    /\ Count(j, "ollama") + Count(j, "openai") = Count(j, "provider")
    /\ Count(j, IF model_provider = "openai" THEN "ollama" ELSE "openai") = 0
    /\ outcome[j].class # "none" => Count(j, "provider") = 1
    /\ (cached_result[j] # None \/ status[j] = "FAILURE") =>
         (Count(j, "provider") = 0 /\ Count(j, "chat") = 0)
C14_Witness ==
  \E j, k \in Jobs :
    /\ model_provider = "openai" /\ Count(j, "openai") = 1
    /\ outcome[j].class \in FailureClasses /\ Count(j, "chat") = 1
    /\ Contains(log[j], "heuristic") /\ status[j] = "SUCCESS"
    /\ cached_result[k] # None /\ status[k] = "SUCCESS"

\* C15: two jobs for the same (repo_url, pr_number, head_sha) that both miss
\* the cache and both compute have computed equal results, so the entry
\* under their key after both wrote does not depend on which wrote last.
C15_RacersAgree ==
  \A j, k \in Jobs :
    (/\ Analyzed(j) /\ Analyzed(k)
     /\ ~payload[j].force /\ ~payload[k].force
     /\ payload[j].repo_url = payload[k].repo_url
     /\ payload[j].pr_number = payload[k].pr_number
     /\ pr_data[j].head_sha = pr_data[k].head_sha) =>
      /\ result_dict[j] = result_dict[k]
      /\ JsonDumps(result_dict[j]) = JsonDumps(result_dict[k])

\* C16: the cache key is a function of (repo_url, pr_number, head_sha) alone:
\* calls with equal triples give equal keys whatever was called before, the
\* key is prreview:<repo_url>:<pr_number>:<suffix> with the head sha as the
\* suffix, and an absent head sha gives the suffix "no-sha".
C16_KeyOfTriple ==
  \A a, b \in 1..Len(key_calls) :
    LET c == key_calls[a]
        d == key_calls[b]
        prefix == "prreview:" \o c.repo_url \o ":" \o ToString(c.pr_number) \o ":"
    IN  /\ c.head_sha = JNull => c.key = prefix \o "no-sha"
        /\ Truthy(c.head_sha) => c.key = prefix \o c.head_sha.v
        /\ c.key \in {prefix \o "no-sha", prefix \o PyStr(c.head_sha)}
        /\ (/\ c.repo_url = d.repo_url /\ c.pr_number = d.pr_number
            /\ c.head_sha = d.head_sha) => c.key = d.key
C16_Witness ==
  /\ Len(key_calls) = 2
  /\ key_calls[1].head_sha = JNull /\ key_calls[1].key = "prreview:r:1:no-sha"
  /\ key_calls[2].head_sha = JStr("abc")
  /\ key_calls[2].key = "prreview:https://github.com/user/repo:1:abc"

\* C17: a batch of n <= 10 requests returns n per-item results in request
\* order; item i is a success with its AnalysisResult when its own fetch and
\* analysis succeeded and an error with its message otherwise, whatever
\* became of the other items.
C17_BatchItem(i) ==
  LET req == batch.requests[i]
      it == batch.items[i]
      res == batch.response.results[i]
      f == fetch_pr_data(req.repo_url, req.pr_number, it.github.ans, it.github.sha)
  IN  /\ res.repo_url = UrlText(req.repo_url) /\ res.pr_number = req.pr_number
      /\ IF ~f.ok
         THEN res.status = "error" /\ res.error = f.error
         ELSE LET r == analyze_pr_with_agent(f.pr, model_provider, it.answer)
              IN  IF r.ok
                  THEN /\ res.status = "success"
                       /\ res.result = ResultDump(r.result)
                       /\ WellFormedResult(res.result)
                  ELSE res.status = "error" /\ res.error = r.error
C17_BatchPerItem ==
  /\ batch.phase = "rejected" => Len(batch.requests) > BatchCap
  /\ batch.phase = "running" => Len(batch.requests) <= BatchCap
  /\ batch.phase = "done" =>
       /\ Len(batch.requests) <= BatchCap
       /\ Len(batch.response.results) = Len(batch.requests)
       /\ batch.response.total_prs = Len(batch.requests)
       /\ \A i \in 1..Len(batch.requests) : C17_BatchItem(i)
C17_Witness ==
  /\ batch.phase = "done" /\ Len(batch.requests) = 2
  /\ batch.order = <<2, 1>>
  /\ batch.response.results[1].status = "error"
  /\ batch.response.results[2].status = "success"
  /\ Len(batch.response.results[2].result.v.issues.v) > 0

\* C18: fetching a job's result never returns a partial result: it gives the
\* not-ready signal in every state before the job is terminal, the
\* AnalysisResult the job returned once it is DONE, and the job's error once
\* it is FAILED.
C18_ResultWhenTerminal ==
  \A j \in Jobs :
    /\ pc[j] # "end" =>
         /\ get_results(j) = [status_code |-> 202, detail |-> JStr("Result not ready")]
         /\ ~get_status(j).result_ready /\ get_status(j).error = JNull
    /\ (pc[j] = "end" /\ status[j] = "SUCCESS") =>
         /\ get_results(j).status_code = 200
         /\ WellFormedResult(get_results(j).content)
         /\ result_dict[j] # None => get_results(j).content = result_dict[j]
         /\ get_status(j).result_ready
    /\ (pc[j] = "end" /\ status[j] # "SUCCESS") =>
         /\ status[j] = "FAILURE" /\ info[j].kind = "error"
         /\ get_results(j) = [status_code |-> 500, detail |-> JStr(info[j].error)]
         /\ get_status(j).error = JStr(info[j].error)
C18_Witness ==
  \E j, k \in Jobs :
    /\ pc[j] = "analyze" /\ info[j].kind = "stage" /\ get_results(j).status_code = 202
    /\ pc[k] = "end" /\ get_results(k).status_code = 200
    /\ Len(get_results(k).content.v.issues.v) > 0

\* C19: the result retrieved for a job that completed describes the pull
\* request submitted: its pr_number is the request's and its head_sha the
\* fetched snapshot's, after a fresh analysis and after a cache hit alike.
C19_ResultOfRequest ==
  \A j \in Jobs :
    (pc[j] = "end" /\ status[j] = "SUCCESS") =>
      /\ get_results(j).status_code = 200
      /\ get_results(j).content.v.pr_number = JInt(payload[j].pr_number)
      /\ get_results(j).content.v.head_sha = pr_data[j].head_sha
C19_Witness ==
  \E j, k \in Jobs :
    /\ status[j] = "SUCCESS" /\ status[k] = "SUCCESS"
    /\ payload[j].pr_number # payload[k].pr_number
    /\ pr_data[j].head_sha = pr_data[k].head_sha
    /\ Contains(log[j], "cache_set") /\ KeyOf(j) \in DOMAIN cache
    /\ log[k][4] = "cache_get" /\ cached_result[k] = None
    /\ Len(log[k]) > Len(log[j])

\* The sequence of lifecycle states a job has gone through, read off its
\* log: the analysis' normalization is PARSING, the cache write CACHING.
PathStates ==
  [SUBMITTED |-> "SUBMITTED", FETCHING |-> "FETCHING", FAILED |-> "FAILED",
   CACHE_HIT |-> "CACHE_HIT", REVIEWING |-> "REVIEWING", DONE |-> "DONE",
   normalize |-> "PARSING", cache_set |-> "CACHING", cache_set_failed |-> "CACHING"]
Path(j) ==
  LET m == SelectSeq(log[j], LAMBDA e : e \in DOMAIN PathStates)
  IN  [i \in 1..Len(m) |-> PathStates[m[i]]]
IsPrefix(p, q) == Len(p) <= Len(q) /\ \A i \in 1..Len(p) : p[i] = q[i]
LifecyclePaths ==
  { <<"SUBMITTED", "FETCHING", "FAILED">>,
    <<"SUBMITTED", "FETCHING", "CACHE_HIT", "DONE">>,
    <<"SUBMITTED", "FETCHING", "REVIEWING", "PARSING", "CACHING", "DONE">> }
\* What a poll of the job shows in the lifecycle state s.
Shows(j, s) ==
  CASE s = "SUBMITTED" -> status[j] = "PENDING"
    [] s = "FETCHING" ->
         status[j] = "PROCESSING" /\ info[j] = [kind |-> "stage", stage |-> "fetching_pr_data"]
    [] s = "REVIEWING" ->
         status[j] = "PROCESSING" /\ info[j] = [kind |-> "stage", stage |-> "ai_code_review"]
    [] s = "DONE" -> status[j] = "SUCCESS" /\ pc[j] = "end"
    [] s = "FAILED" -> status[j] = "FAILURE" /\ pc[j] = "end"
    [] OTHER -> FALSE

\* C20: every job's state sequence is a path SUBMITTED, FETCHING, then FAILED,
\* or CACHE_HIT, DONE, or REVIEWING, PARSING, CACHING, DONE. The fetching
\* marker comes before any other step, the reviewing marker only after a
\* successful fetch and a cache miss or a forced run, the cache write only
\* after the analysis gave a result, and DONE and FAILED are terminal.
C20_OnPath(j) ==
  /\ \E p \in LifecyclePaths : IsPrefix(Path(j), p)
  /\ Len(log[j]) >= 1 => log[j][1] = "SUBMITTED"
  /\ Len(log[j]) >= 2 => log[j][2] = "FETCHING"
  /\ Len(Path(j)) >= 1 => Shows(j, Path(j)[Len(Path(j))])
  /\ Contains(log[j], "REVIEWING") =>
       /\ pr_data[j] # None
       /\ \/ payload[j].force /\ ~Contains(log[j], "cache_get")
          \/ ~payload[j].force /\ Contains(log[j], "cache_get") /\ cached_result[j] = None
  /\ Contains(Path(j), "CACHING") =>
       /\ result_dict[j] # None /\ WellFormedResult(result_dict[j])
       /\ Contains(log[j], "REVIEWING") /\ Contains(log[j], "provider")
  /\ pc[j] = "end" <=> (Contains(log[j], "DONE") \/ Contains(log[j], "FAILED"))
C20_Lifecycle ==
  /\ [](\A j \in Jobs : C20_OnPath(j))
  /\ [][\A j \in Jobs :
          pc[j] = "end" =>
            /\ pc'[j] = "end" /\ status'[j] = status[j] /\ info'[j] = info[j]
            /\ log'[j] = log[j] /\ result_dict'[j] = result_dict[j]]_vars
C20_Witness ==
  \E j, k \in Jobs :
    /\ Path(j) = <<"SUBMITTED", "FETCHING", "CACHE_HIT", "DONE">>
    /\ Path(k) = <<"SUBMITTED", "FETCHING", "REVIEWING", "PARSING", "CACHING", "DONE">>
    /\ j < k /\ KeyOf(j) \notin DOMAIN cache

\* C21: the heuristic analyzer emits issues only for patch lines that start
\* with "+"; for such a line it emits a warning/best_practice issue iff the
\* line contains a debug print, an info/style issue iff the line without the
\* marker is longer than 120 characters, and an info/best_practice issue iff
\* it contains TODO or FIXME, in this order and nothing else; the issues
\* follow the order of the files and of their lines.
IssuesAt(issues, filename, n) ==
  SelectSeq(issues, LAMBDA i : i.v.file_path = JStr(filename) /\ i.v.line = JInt(n))
Kind(i) == <<i.v.severity.v, i.v.category.v>>
Has(q, kind) == \E x \in 1..Len(q) : Kind(q[x]) = kind
Rank(kind) ==
  CASE kind = <<"warning", "best_practice">> -> 1
    [] kind = <<"info", "style">> -> 2
    [] kind = <<"info", "best_practice">> -> 3
    [] OTHER -> 0
FileIndex(files, filename) == CHOOSE k \in 1..Len(files) : files[k].filename = filename
Bit(b) == IF b THEN 1 ELSE 0
C21_LineRule(issues, f, n) ==
  LET line == f.patch.v[n]
      sel == IssuesAt(issues, f.filename, n)
      debug == line.print \/ line.console
  IN  IF line.prefix # "+" THEN sel = <<>>
      ELSE /\ Has(sel, <<"warning", "best_practice">>) <=> debug
           /\ Has(sel, <<"info", "style">>) <=> line.len > 120
           /\ Has(sel, <<"info", "best_practice">>) <=> line.todo
           /\ Len(sel) = Bit(debug) + Bit(line.len > 120) + Bit(line.todo)
           /\ \A x, y \in 1..Len(sel) : x < y => Rank(Kind(sel[x])) < Rank(Kind(sel[y]))
C21_HeuristicRule ==
  call.fn = "_heuristic_review" =>
    LET files == call.arg
        issues == call.ret.v.issues.v
        patched == {k \in 1..Len(files) : files[k].patch # JNull}
    IN  /\ call.ret.v.summary = JStr(HeuristicSummary)
        /\ \A k \in patched : \A n \in 1..Len(files[k].patch.v) :
             C21_LineRule(issues, files[k], n)
        /\ \A x \in 1..Len(issues) :
             /\ Rank(Kind(issues[x])) > 0
             /\ \E k \in patched :
                  /\ issues[x].v.file_path = JStr(files[k].filename)
                  /\ issues[x].v.line.t = "int"
                  /\ issues[x].v.line.v \in 1..Len(files[k].patch.v)
        /\ \A x, y \in 1..Len(issues) :
             x < y =>
               LET kx == FileIndex(files, issues[x].v.file_path.v)
                   ky == FileIndex(files, issues[y].v.file_path.v)
               IN  kx < ky \/ (kx = ky /\ issues[x].v.line.v <= issues[y].v.line.v)
\* A removed line with a debug print and a TODO before an added line of 121
\* characters: exactly one issue, info/style, on line 2.
C21_Witness ==
  /\ call.fn = "_heuristic_review"
  /\ call.arg = <<[filename |-> "a.py",
                   patch |-> JList(<<PatchLine("-", TRUE, FALSE, TRUE, 130),
                                     PatchLine("+", FALSE, FALSE, FALSE, 121)>>)]>>
  /\ Len(call.ret.v.issues.v) = 1
  /\ Kind(call.ret.v.issues.v[1]) = <<"info", "style">>
  /\ call.ret.v.issues.v[1].v.line = JInt(2)

\* C22: for a text that fails the strict parse, every file:/filename: line
\* starts a new partial issue after the non-empty current one is flushed and
\* the last partial issue is flushed at the end: the issues are one per
\* marker line, in input order, after one for the fields that precede the
\* first marker; every severity is info, warning or error and every line an
\* integer or null.
IsMarker(l) == l.marks \cap {"file:", "filename:"} # {}
IsFieldLine(l) == ~IsMarker(l) /\ l.marks \cap {"line:", "severity:", "message:"} # {}
MarkerLines(lines) ==
  SelectSeq([i \in 1..Len(lines) |-> i], LAMBDA i : IsMarker(lines[i]))
LeadingFields(lines) ==
  \E i \in 1..Len(lines) :
    IsFieldLine(lines[i]) /\ \A h \in 1..i : ~IsMarker(lines[h])
C22_LineTier ==
  (call.fn = "_parse_json_threaded" /\ call.arg.form = "prose") =>
    LET lines == call.arg.lines
        issues == call.ret.v.issues.v
        markers == MarkerLines(lines)
        lead == Bit(LeadingFields(lines))
    IN  /\ Len(issues) = lead + Len(markers)
        /\ lead = 1 => "file_path" \notin DOMAIN issues[1].v
        /\ \A m \in 1..Len(markers) :
             /\ "file_path" \in DOMAIN issues[lead + m].v
             /\ issues[lead + m].v.file_path = JStr(PyStr(lines[markers[m]].last))
        /\ \A x \in 1..Len(issues) :
             /\ DOMAIN issues[x].v # {}
             /\ "severity" \in DOMAIN issues[x].v
                  => issues[x].v.severity \in {JStr(v) : v \in Severities}
             /\ "line" \in DOMAIN issues[x].v => issues[x].v.line.t \in {"int", "null"}
\* A non-numeric line field before the first marker, then a marker whose
\* partial issue, with a severity outside the enum, is the last: two issues.
C22_Witness ==
  /\ call.fn = "_parse_json_threaded" /\ call.arg.form = "prose"
  /\ call.arg.lines = << ProseLine({"line:"}, JStr("x")),
                         ProseLine({"file:"}, JStr("a.py")),
                         ProseLine({"severity:"}, JStr("critical")) >>
  /\ Len(call.ret.v.issues.v) = 2
  /\ call.ret.v.issues.v[1] = JDict([line |-> JNull])
  /\ call.ret.v.issues.v[2] = JDict([file_path |-> JStr("a.py"), severity |-> JStr("info")])

\* C23: the classification of provider failures is total and has a fixed
\* precedence. Local: a missing backend gives NotAvailable without a chat
\* call; else "model not found" gives ModelNotFound, else "connection
\* refused" ConnectionFailure, else Unknown. Remote: a missing client or API
\* key gives NotAvailable without a request; else "quota" or "billing" gives
\* QuotaExceeded, else "authentication" AuthFailure, else Unknown. A failing
\* call has exactly one class and no payload.
C23_LocalClass(a) ==
  IF ~a.lib THEN "NotAvailable"
  ELSE IF "model not found" \in a.marks THEN "ModelNotFound"
  ELSE IF "connection refused" \in a.marks THEN "ConnectionFailure"
  ELSE "Unknown"
C23_RemoteClass(a) ==
  IF ~a.lib \/ ~a.key THEN "NotAvailable"
  ELSE IF "quota" \in a.marks \/ "billing" \in a.marks THEN "QuotaExceeded"
  ELSE IF "authentication" \in a.marks THEN "AuthFailure"
  ELSE "Unknown"
C23_Classification ==
  call.fn \in {"_call_ollama", "_call_openai"} =>
    LET a == call.arg
        r == call.ret
        local == call.fn = "_call_ollama"
        available == a.lib /\ (local \/ a.key)
    IN  /\ r.ok \/ r.class \in FailureClasses
        /\ r.ok => r.class = "text" /\ available /\ a.kind # "raise"
        /\ ~r.ok => r.val = JNull
        /\ ~available => ~r.ok /\ r.class = "NotAvailable" /\ ~r.chat
        /\ (available /\ a.kind = "raise") =>
             /\ ~r.ok /\ r.chat
             /\ r.class = IF local THEN C23_LocalClass(a) ELSE C23_RemoteClass(a)
\* The remote backend raised an error whose text holds both "quota" and
\* "authentication": QuotaExceeded.
C23_Witness ==
  /\ call.fn = "_call_openai"
  /\ call.arg.lib /\ call.arg.key /\ call.arg.kind = "raise"
  /\ call.arg.marks = {"quota", "authentication"}
  /\ call.ret.class = "QuotaExceeded" /\ call.ret.val = JNull

\* C24: a degraded result is cached like a clean one. A job whose provider
\* call failed, or whose analysis raised, and whose cache write went through
\* leaves its heuristic or fallback result under its key; a later job with
\* force=false whose cache read finds that entry (not expired, not
\* overwritten) returns it and invokes no component of the analysis.
Degraded(j) ==
  Analyzed(j) /\ (outcome[j].class \in FailureClasses \/ Contains(log[j], "fallback"))
BadPayload(v) ==
  /\ v.t = "dict" /\ "issues" \in DOMAIN v.v /\ v.v.issues.t = "list"
  /\ \E i \in 1..Len(v.v.issues.v) :
       LET item == v.v.issues.v[i]
       IN  item.t # "dict"
           \/ ("severity" \in DOMAIN item.v /\ item.v.severity \notin {JStr(x) : x \in Severities})
C25_FallbackOnRaise ==
  [][\A j \in Jobs :
       (/\ pc[j] = "analyze" /\ pc'[j] = "end"
        /\ (Contains(log'[j], "fallback") \/ BadPayload(outcome'[j].val)))
         => LET d == result_dict'[j]
            IN  /\ pr_data[j] # None
                /\ Contains(log'[j], "fallback")
                /\ status'[j] = "SUCCESS" /\ info'[j] = [kind |-> "result", result |-> d]
                /\ d.v.issues = JList(<<>>)
                /\ DOMAIN d.v.model_info.v = {"provider", "error"}
                /\ d.v.model_info.v.provider = JStr("fallback")
                /\ d.v.model_info.v.error.t = "str" /\ d.v.model_info.v.error.v # ""
                /\ d.v.summary = JStr("Analysis failed: " \o d.v.model_info.v.error.v
                                      \o ". Try again or check logs.")
                /\ d.v.pr_number = JInt(payload[j].pr_number)
                /\ d.v.head_sha = pr_data[j].head_sha
                /\ Contains(log'[j], "cache_set") \/ Contains(log'[j], "cache_set_failed")
                /\ Contains(log'[j], "cache_set") =>
                     (KeyOf(j) \in DOMAIN cache' /\ cache'[KeyOf(j)] = JsonDumps(d))]_vars
\* The provider returned an issue with an unknown severity: normalization
\* raised, the job is DONE with the fallback and the entry under its key
\* holds it.
C25_Witness ==
  \E j \in Jobs :
    /\ pc[j] = "end" /\ status[j] = "SUCCESS"
    /\ outcome[j].class = "text" /\ BadPayload(outcome[j].val)
    /\ Contains(log[j], "fallback") /\ Contains(log[j], "cache_set")
    /\ info[j].result.v.model_info.v.provider = JStr("fallback")
    /\ KeyOf(j) \in DOMAIN cache /\ cache[KeyOf(j)] = JsonDumps(info[j].result)

\* C26: a provider call that succeeds with an empty parsed payload (the
\* remote provider returning no content, parsed as the empty object) is
\* treated like a failed one: the result carries the heuristic analyzer's
\* summary and issues, not the provider's payload.
C26_EmptyPayloadHeuristic ==
  \A j \in Jobs :
    (Analyzed(j) /\ outcome[j].class = "text" /\ outcome[j].val = JDict(<<>>)) =>
      /\ Contains(log[j], "parser") /\ Contains(log[j], "heuristic")
      /\ ~Contains(log[j], "fallback")
      /\ status[j] = "SUCCESS" /\ info[j].result = result_dict[j]
      /\ result_dict[j].v.summary = JStr(HeuristicSummary)
      /\ result_dict[j].v.issues = _heuristic_review(pr_data[j]).v.issues
\* The remote provider answered an empty object for a snapshot in which the
\* heuristic analyzer finds two issues.
C26_Witness ==
  \E j \in Jobs :
    /\ Analyzed(j) /\ outcome[j].class = "text" /\ outcome[j].val = JDict(<<>>)
    /\ model_provider = "openai" /\ Contains(log[j], "chat")
    /\ Len(result_dict[j].v.issues.v) = 2
    /\ result_dict[j].v.issues.v[1].v.severity = JStr("info")

C28_ItemFresh(i) ==
  LET req == batch.requests[i]
      it == batch.items[i]
      f == fetch_pr_data(req.repo_url, req.pr_number, it.github.ans, it.github.sha)
  IN  /\ it.pc = "analyze" => f.ok /\ it.pr = f.pr
      /\ (it.pc = "done" /\ f.ok) =>
           /\ "answer" \in DOMAIN it
           /\ it.answer \in ProviderAnswers(model_provider)
           /\ LET r == analyze_pr_with_agent(f.pr, model_provider, it.answer)
              IN  r.ok => (it.item.status = "success" /\ it.item.result = ResultDump(r.result))
C28_BatchIgnoresCache ==
  /\ [][cache' = cache /\ stored' = stored]_vars
  /\ [](batch.phase \in {"running", "done"} =>
          \A i \in 1..Len(batch.requests) :
            batch.items[i].pc # "fetch" => C28_ItemFresh(i))
\* A batch of a forced and an unforced request for the pull request whose
\* entry is in the store: both items were analyzed, with results that are
\* not the entry, and the entry is still there.
C28_Witness ==
  /\ batch.phase = "done" /\ Len(batch.requests) = 2
  /\ batch.requests[1].force /\ ~batch.requests[2].force
  /\ \A i \in 1..2 :
       /\ batch.items[i].item.status = "success"
       /\ build_cache_key(batch.items[i].item.repo_url, batch.items[i].item.pr_number,
                          batch.items[i].item.result.v.head_sha) = SeedKey
       /\ batch.items[i].item.result # SeedResult
  /\ SeedKey \in DOMAIN cache /\ JsonLoads(cache[SeedKey]) = SeedResult
====
